---- MODULE Spec2Model ----
(***************************************************************************)
(* Model of the rust_gb CPU core: the RegisterBank (register_bank.rs),     *)
(* the Instruction vocabulary (instruction.rs) and Cpu::exec / Cpu::add    *)
(* (cpu.rs).  The state is the register bank owned by the Cpu; every       *)
(* public operation is one action.  Each action also records the bank      *)
(* before the call and the call itself, so that before/after contracts     *)
(* are state predicates.                                                   *)
(***************************************************************************)
EXTENDS Naturals, Integers, Sequences, FiniteSets, TLC

VARIABLES registers, pre, last, panicked, steps

vars == <<registers, pre, last, panicked, steps>>

\* Number of calls explored from the freshly constructed bank.
MaxSteps == 3

\* Byte arguments tried for write_register (u8 boundary values:
\* 0x00, 0x01, 0x0F, 0x10, 0x80, 0xF0, 0xFF).
Vals == {0, 1, 15, 16, 128, 240, 255}

\* u16 arguments tried for write_bc / write_de / write_hl
\* (0x0000, 0x00FF, 0x11AA, 0xFF00, 0xFFFF).
Words == {0, 255, 4522, 65280, 65535}

Register == {"A", "B", "C", "D", "E", "F", "H", "L"}

ArithmeticTarget == {"A", "B", "C", "D", "E", "H", "L"}

\* RegisterBank::default(): every cell zero.
RegisterBank == [a |-> 0, b |-> 0, c |-> 0, d |-> 0, e |-> 0, f |-> 0, h |-> 0, l |-> 0]

----------------------------------------------------------------------------
\* Bit operations on unsigned integers of width w.

RECURSIVE BitAnd(_, _, _)
BitAnd(x, y, w) ==
    IF w = 0 THEN 0
    ELSE ((x % 2) * (y % 2)) + 2 * BitAnd(x \div 2, y \div 2, w - 1)

RECURSIVE BitOr(_, _, _)
BitOr(x, y, w) ==
    IF w = 0 THEN 0
    ELSE (IF (x % 2) + (y % 2) > 0 THEN 1 ELSE 0) + 2 * BitOr(x \div 2, y \div 2, w - 1)

\* !x on a u8
BitNot8(x) == 255 - x

\* 1 << n on a u8
Shl1(n) == (2 ^ n) % 256

----------------------------------------------------------------------------
\* RegisterBank

read(bank, register) ==
    CASE register = "A" -> bank.a
      [] register = "B" -> bank.b
      [] register = "C" -> bank.c
      [] register = "D" -> bank.d
      [] register = "E" -> bank.e
      [] register = "F" -> bank.f
      [] register = "H" -> bank.h
      [] register = "L" -> bank.l

\* Mutants of write_register.
write_register_validates_all(bank, register, val) ==
    IF BitAnd(val, 240, 8) > 0
    THEN [ok |-> FALSE, bank |-> bank]
    ELSE [ok |-> TRUE,
          bank |-> CASE register = "A" -> [bank EXCEPT !.a = val]
                     [] register = "B" -> [bank EXCEPT !.b = val]
                     [] register = "C" -> [bank EXCEPT !.c = val]
                     [] register = "D" -> [bank EXCEPT !.d = val]
                     [] register = "E" -> [bank EXCEPT !.e = val]
                     [] register = "F" -> [bank EXCEPT !.f = val]
                     [] register = "H" -> [bank EXCEPT !.h = val]
                     [] register = "L" -> [bank EXCEPT !.l = val]]

write_register_assigns_before_check(bank, register, val) ==
    CASE register = "A" -> [ok |-> TRUE, bank |-> [bank EXCEPT !.a = val]]
      [] register = "B" -> [ok |-> TRUE, bank |-> [bank EXCEPT !.b = val]]
      [] register = "C" -> [ok |-> TRUE, bank |-> [bank EXCEPT !.c = val]]
      [] register = "D" -> [ok |-> TRUE, bank |-> [bank EXCEPT !.d = val]]
      [] register = "E" -> [ok |-> TRUE, bank |-> [bank EXCEPT !.e = val]]
      [] register = "F" -> [ok |-> ~(BitAnd(val, 240, 8) > 0),
                            bank |-> [bank EXCEPT !.f = val]]
      [] register = "H" -> [ok |-> TRUE, bank |-> [bank EXCEPT !.h = val]]
      [] register = "L" -> [ok |-> TRUE, bank |-> [bank EXCEPT !.l = val]]

write_register_h_clobbers_l(bank, register, val) ==
    CASE register = "A" -> [ok |-> TRUE, bank |-> [bank EXCEPT !.a = val]]
      [] register = "B" -> [ok |-> TRUE, bank |-> [bank EXCEPT !.b = val]]
      [] register = "C" -> [ok |-> TRUE, bank |-> [bank EXCEPT !.c = val]]
      [] register = "D" -> [ok |-> TRUE, bank |-> [bank EXCEPT !.d = val]]
      [] register = "E" -> [ok |-> TRUE, bank |-> [bank EXCEPT !.e = val]]
      [] register = "F" -> IF BitAnd(val, 240, 8) > 0
                           THEN [ok |-> FALSE, bank |-> bank]
                           ELSE [ok |-> TRUE, bank |-> [bank EXCEPT !.f = val]]
      [] register = "H" -> [ok |-> TRUE, bank |-> [bank EXCEPT !.h = val, !.l = val]]
      [] register = "L" -> [ok |-> TRUE, bank |-> [bank EXCEPT !.l = val]]

write_register_e_stores_d(bank, register, val) ==
    CASE register = "A" -> [ok |-> TRUE, bank |-> [bank EXCEPT !.a = val]]
      [] register = "B" -> [ok |-> TRUE, bank |-> [bank EXCEPT !.b = val]]
      [] register = "C" -> [ok |-> TRUE, bank |-> [bank EXCEPT !.c = val]]
      [] register = "D" -> [ok |-> TRUE, bank |-> [bank EXCEPT !.d = val]]
      [] register = "E" -> [ok |-> TRUE, bank |-> [bank EXCEPT !.d = val]]
      [] register = "F" -> IF BitAnd(val, 240, 8) > 0
                           THEN [ok |-> FALSE, bank |-> bank]
                           ELSE [ok |-> TRUE, bank |-> [bank EXCEPT !.f = val]]
      [] register = "H" -> [ok |-> TRUE, bank |-> [bank EXCEPT !.h = val]]
      [] register = "L" -> [ok |-> TRUE, bank |-> [bank EXCEPT !.l = val]]

\* write_register returns Result<(), &str> and mutates the bank in place:
\* ok is the Result, bank the bank after the call.  For F the code rejects
\* the value when `val & 0xF0 > 0`, i.e. (val & 0xF0) > 0.
write_register(bank, register, val) ==
    CASE register = "A" -> [ok |-> TRUE, bank |-> [bank EXCEPT !.a = val]]
      [] register = "B" -> [ok |-> TRUE, bank |-> [bank EXCEPT !.b = val]]
      [] register = "C" -> [ok |-> TRUE, bank |-> [bank EXCEPT !.c = val]]
      [] register = "D" -> [ok |-> TRUE, bank |-> [bank EXCEPT !.d = val]]
      [] register = "E" -> [ok |-> TRUE, bank |-> [bank EXCEPT !.e = val]]
      [] register = "F" -> IF BitAnd(val, 240, 8) > 0
                           THEN [ok |-> FALSE, bank |-> bank]
                           ELSE [ok |-> TRUE, bank |-> [bank EXCEPT !.f = val]]
      [] register = "H" -> [ok |-> TRUE, bank |-> [bank EXCEPT !.h = val]]
      [] register = "L" -> [ok |-> TRUE, bank |-> [bank EXCEPT !.l = val]]

read_bc(bank) == BitOr((bank.b * 256) % 65536, bank.c, 16)

write_bc(bank, value) ==
    [bank EXCEPT !.b = (value \div 256) % 256, !.c = value % 256]

read_de(bank) == BitOr((bank.d * 256) % 65536, bank.e, 16)

\* Mutant of write_de: high and low byte swapped.
write_de_swapped(bank, value) ==
    [bank EXCEPT !.d = value % 256, !.e = (value \div 256) % 256]

write_de(bank, value) ==
    [bank EXCEPT !.d = (value \div 256) % 256, !.e = value % 256]

read_hl(bank) == BitOr((bank.h * 256) % 65536, bank.l, 16)

write_hl(bank, value) ==
    [bank EXCEPT !.h = (value \div 256) % 256, !.l = value % 256]

set_zero_bit(bank, v) ==
    IF v THEN [bank EXCEPT !.f = BitOr(bank.f, Shl1(7), 8)]
         ELSE [bank EXCEPT !.f = BitAnd(bank.f, BitNot8(Shl1(7)), 8)]

has_zero_bit(bank) == BitAnd(bank.f, Shl1(7), 8) # 0

set_subtraction_bit(bank, v) ==
    IF v THEN [bank EXCEPT !.f = BitOr(bank.f, Shl1(6), 8)]
         ELSE [bank EXCEPT !.f = BitAnd(bank.f, BitNot8(Shl1(6)), 8)]

has_subtraction_bit(bank) == BitAnd(bank.f, 64, 8) # 0

set_half_carry_bit(bank, v) ==
    IF v THEN [bank EXCEPT !.f = BitOr(bank.f, Shl1(5), 8)]
         ELSE [bank EXCEPT !.f = BitAnd(bank.f, BitNot8(Shl1(5)), 8)]

has_half_carry_bit(bank) == BitAnd(bank.f, 32, 8) # 0

\* Mutant of set_carry_bit: clearing masks with the bit itself instead of
\* its complement.
set_carry_bit_bad_mask(bank, v) ==
    IF v THEN [bank EXCEPT !.f = BitOr(bank.f, Shl1(4), 8)]
         ELSE [bank EXCEPT !.f = BitAnd(bank.f, Shl1(4), 8)]

set_carry_bit(bank, v) ==
    IF v THEN [bank EXCEPT !.f = BitOr(bank.f, Shl1(4), 8)]
         ELSE [bank EXCEPT !.f = BitAnd(bank.f, BitNot8(Shl1(4)), 8)]

has_carry_bit(bank) == BitAnd(bank.f, 16, 8) # 0

----------------------------------------------------------------------------
\* Cpu

\* u8::overflowing_add: (wrapped sum, overflow)
overflowing_add(x, y) == <<(x + y) % 256, (x + y) > 255>>

\* Mutant of lower_carry: tests the full bytes instead of the low nibbles.
lower_carry_full_byte(v, old) == v + old > 15

\* let lower_carry = (v & 0xF) + (old & 0xF) > 0xF;
lower_carry(v, old) == BitAnd(v, 15, 8) + BitAnd(old, 15, 8) > 15

\* Mutant of add: the sum is written back to the operand register.
add_writes_operand(bank, reg) ==
    LET v == read(bank, reg)
        old == read(bank, "A")
        r == overflowing_add(old, v)
        b1 == set_zero_bit(bank, r[1] = 0)
        b2 == set_subtraction_bit(b1, FALSE)
        b3 == set_carry_bit(b2, r[2])
        b4 == set_half_carry_bit(b3, lower_carry(v, old))
    IN  write_register(b4, reg, r[1])

\* Cpu::add up to and including the write-back; the caller unwraps ok.
add(bank, reg) ==
    LET v == read(bank, reg)
        old == read(bank, "A")
        r == overflowing_add(old, v)
        b1 == set_zero_bit(bank, r[1] = 0)
        b2 == set_subtraction_bit(b1, FALSE)
        b3 == set_carry_bit(b2, r[2])
        b4 == set_half_carry_bit(b3, lower_carry(v, old))
    IN  write_register(b4, "A", r[1])

\* exec's match: ArithmeticTarget -> Register, one to one.
target_register(target) ==
    CASE target = "A" -> "A"
      [] target = "B" -> "B"
      [] target = "C" -> "C"
      [] target = "D" -> "D"
      [] target = "E" -> "E"
      [] target = "H" -> "H"
      [] target = "L" -> "L"

----------------------------------------------------------------------------
\* The state machine

NoCall == [name |-> "none", reg |-> "-", val |-> 0, flag |-> FALSE, ok |-> TRUE]

Init ==
    /\ registers = RegisterBank
    /\ pre = RegisterBank
    /\ last = NoCall
    /\ panicked = FALSE
    /\ steps = 0

CanCall == ~panicked /\ steps < MaxSteps

Called(name, reg, val, flag, ok) ==
    /\ pre' = registers
    /\ last' = [name |-> name, reg |-> reg, val |-> val, flag |-> flag, ok |-> ok]
    /\ steps' = steps + 1

WriteRegister ==
    /\ CanCall
    /\ \E register \in Register, val \in Vals :
         LET r == write_register(registers, register, val)
         IN  /\ registers' = r.bank
             /\ Called("write_register", register, val, FALSE, r.ok)
    /\ UNCHANGED panicked

WriteBc ==
    /\ CanCall
    /\ \E value \in Words :
         /\ registers' = write_bc(registers, value)
         /\ Called("write_bc", "-", value, FALSE, TRUE)
    /\ UNCHANGED panicked

WriteDe ==
    /\ CanCall
    /\ \E value \in Words :
         /\ registers' = write_de(registers, value)
         /\ Called("write_de", "-", value, FALSE, TRUE)
    /\ UNCHANGED panicked

WriteHl ==
    /\ CanCall
    /\ \E value \in Words :
         /\ registers' = write_hl(registers, value)
         /\ Called("write_hl", "-", value, FALSE, TRUE)
    /\ UNCHANGED panicked

SetZeroBit ==
    /\ CanCall
    /\ \E v \in BOOLEAN :
         /\ registers' = set_zero_bit(registers, v)
         /\ Called("set_zero_bit", "-", 0, v, TRUE)
    /\ UNCHANGED panicked

SetSubtractionBit ==
    /\ CanCall
    /\ \E v \in BOOLEAN :
         /\ registers' = set_subtraction_bit(registers, v)
         /\ Called("set_subtraction_bit", "-", 0, v, TRUE)
    /\ UNCHANGED panicked

SetHalfCarryBit ==
    /\ CanCall
    /\ \E v \in BOOLEAN :
         /\ registers' = set_half_carry_bit(registers, v)
         /\ Called("set_half_carry_bit", "-", 0, v, TRUE)
    /\ UNCHANGED panicked

SetCarryBit ==
    /\ CanCall
    /\ \E v \in BOOLEAN :
         /\ registers' = set_carry_bit(registers, v)
         /\ Called("set_carry_bit", "-", 0, v, TRUE)
    /\ UNCHANGED panicked

\* exec(Instruction::Add(target)); the unwrap of the write-back panics on Err.
Exec ==
    /\ CanCall
    /\ \E target \in ArithmeticTarget :
         LET r == add(registers, target_register(target))
         IN  /\ registers' = r.bank
             /\ panicked' = ~r.ok
             /\ Called("exec_add", target, 0, FALSE, r.ok)

Next ==
    \/ WriteRegister
    \/ WriteBc
    \/ WriteDe
    \/ WriteHl
    \/ SetZeroBit
    \/ SetSubtractionBit
    \/ SetHalfCarryBit
    \/ SetCarryBit
    \/ Exec

Spec == Init /\ [][Next]_vars

----------------------------------------------------------------------------
\* Properties

\* C1: write_register(F, v) returns Ok iff v & 0x0F == 0, and on Ok a
\* following read(F) returns v.
C1_FlagWriteDomain ==
    (last.name = "write_register" /\ last.reg = "F") =>
        /\ last.ok <=> (last.val % 16 = 0)
        /\ last.ok => read(registers, "F") = last.val

\* C2: in every reachable state the low nibble of F is zero.
C2_LowNibbleZero == registers.f % 16 = 0

\* C3: after exec(Add(t)) with old = read(A) and v = read(t) before the call,
\* A = (old + v) mod 256, zero = (sum = 0), carry = (old + v > 255),
\* half-carry = ((old & 0xF) + (v & 0xF) > 0xF), subtraction = false.
C3_AddSemantics ==
    last.name = "exec_add" =>
        LET old == read(pre, "A")
            v == read(pre, last.reg)
        IN  /\ read(registers, "A") = (old + v) % 256
            /\ has_zero_bit(registers) = ((old + v) % 256 = 0)
            /\ has_carry_bit(registers) = (old + v > 255)
            /\ has_half_carry_bit(registers) = ((old % 16) + (v % 16) > 15)
            /\ has_subtraction_bit(registers) = FALSE

\* Add(A) with A = 0x80 and the subtraction flag set before the call:
\* the operand aliases the accumulator, the sum wraps to zero.
C3_Witness ==
    /\ last.name = "exec_add"
    /\ last.reg = "A"
    /\ pre.a = 128
    /\ has_subtraction_bit(pre)
    /\ registers.a = 0
    /\ has_carry_bit(registers)

\* C4: whenever write_register returns an error, the whole register bank is
\* exactly as it was before the call.
C4_FailedWriteIsNoOp ==
    (last.name = "write_register" /\ ~last.ok) => registers = pre

\* A rejected write to F while F already holds a different, non-zero value.
C4_Witness ==
    /\ last.name = "write_register"
    /\ last.reg = "F"
    /\ ~last.ok
    /\ pre.f # 0
    /\ pre.f # last.val

\* C5: for every register r other than F and every byte v, write_register(r, v)
\* returns Ok and a following read(r) returns v.
C5_WriteReadRoundTrip ==
    (last.name = "write_register" /\ last.reg # "F") =>
        /\ last.ok
        /\ read(registers, last.reg) = last.val

\* E is overwritten with 0xFF after having held another non-zero value.
C5_Witness ==
    /\ last.name = "write_register"
    /\ last.reg = "E"
    /\ last.val = 255
    /\ pre.e = 170
    /\ registers.e = 255

\* C6: writing a 16-bit value to BC / DE / HL and reading the pair back gives
\* the value; the first register holds the high byte, the second the low byte.
C6_PairRoundTrip ==
    /\ last.name = "write_bc" =>
         /\ read_bc(registers) = last.val
         /\ read(registers, "B") = last.val \div 256
         /\ read(registers, "C") = last.val % 256
    /\ last.name = "write_de" =>
         /\ read_de(registers) = last.val
         /\ read(registers, "D") = last.val \div 256
         /\ read(registers, "E") = last.val % 256
    /\ last.name = "write_hl" =>
         /\ read_hl(registers) = last.val
         /\ read(registers, "H") = last.val \div 256
         /\ read(registers, "L") = last.val % 256

\* write_de(0x11AA) over a pair that held 0xFF00.
C6_Witness ==
    /\ last.name = "write_de"
    /\ last.val = 4522
    /\ read_de(pre) = 65280
    /\ registers.d = 17
    /\ registers.e = 170

\* C7: set_X(b) makes has_X() = b, leaves the other three flag getters, the
\* low nibble of F and every other register as they were.
C7_SetterTouchesOneBit ==
    LET Frame == /\ registers.f % 16 = pre.f % 16
                 /\ [registers EXCEPT !.f = 0] = [pre EXCEPT !.f = 0]
    IN  /\ last.name = "set_zero_bit" =>
             /\ has_zero_bit(registers) = last.flag
             /\ has_subtraction_bit(registers) = has_subtraction_bit(pre)
             /\ has_half_carry_bit(registers) = has_half_carry_bit(pre)
             /\ has_carry_bit(registers) = has_carry_bit(pre)
             /\ Frame
        /\ last.name = "set_subtraction_bit" =>
             /\ has_subtraction_bit(registers) = last.flag
             /\ has_zero_bit(registers) = has_zero_bit(pre)
             /\ has_half_carry_bit(registers) = has_half_carry_bit(pre)
             /\ has_carry_bit(registers) = has_carry_bit(pre)
             /\ Frame
        /\ last.name = "set_half_carry_bit" =>
             /\ has_half_carry_bit(registers) = last.flag
             /\ has_zero_bit(registers) = has_zero_bit(pre)
             /\ has_subtraction_bit(registers) = has_subtraction_bit(pre)
             /\ has_carry_bit(registers) = has_carry_bit(pre)
             /\ Frame
        /\ last.name = "set_carry_bit" =>
             /\ has_carry_bit(registers) = last.flag
             /\ has_zero_bit(registers) = has_zero_bit(pre)
             /\ has_subtraction_bit(registers) = has_subtraction_bit(pre)
             /\ has_half_carry_bit(registers) = has_half_carry_bit(pre)
             /\ Frame

\* set_carry_bit(false) on F = 0x1F: the carry bit is set and the low nibble
\* is non-zero before the call.
C7_Witness ==
    /\ last.name = "set_carry_bit"
    /\ last.flag = FALSE
    /\ pre.f = 31
    /\ registers.f = 15

\* C8: exec(Add(t)) never panics: the write-back of the sum to A returns Ok.
C8_AddIsTotal ==
    /\ ~panicked
    /\ last.name = "exec_add" => last.ok

\* Add(B) with a sum of 0xFF and a non-zero low nibble in F.
C8_Witness ==
    /\ last.name = "exec_add"
    /\ last.ok
    /\ registers.a = 255
    /\ pre.f % 16 # 0

\* C9: exec(Add(t)) leaves B, C, D, E, H, L and the low nibble of F unchanged.
C9_AddFrame ==
    last.name = "exec_add" =>
        /\ \A r \in {"B", "C", "D", "E", "H", "L"} : read(registers, r) = read(pre, r)
        /\ registers.f % 16 = pre.f % 16

\* Add(C) with A = 0x01 and C = 0xFF: A changes, the operand C does not.
C9_Witness ==
    /\ last.name = "exec_add"
    /\ last.reg = "C"
    /\ pre.a = 1
    /\ pre.c = 255
    /\ registers.c = 255
    /\ registers.a = 0

\* C10: a successful write_register(r, v) leaves the seven other registers
\* unchanged; write_bc / write_de / write_hl leave the six registers outside
\* the pair unchanged.
C10_WriteFrame ==
    LET Same(rs) == \A r \in rs : read(registers, r) = read(pre, r)
    IN  /\ (last.name = "write_register" /\ last.ok) => Same(Register \ {last.reg})
        /\ last.name = "write_bc" => Same(Register \ {"B", "C"})
        /\ last.name = "write_de" => Same(Register \ {"D", "E"})
        /\ last.name = "write_hl" => Same(Register \ {"H", "L"})

\* write_register(H, 0xFF) while HL holds 0x11AA: L keeps 0xAA.
C10_Witness ==
    /\ last.name = "write_register"
    /\ last.reg = "H"
    /\ last.val = 255
    /\ pre.h = 17
    /\ pre.l = 170
    /\ registers.l = 170

====
